---- MODULE Spec2Model ----
(***************************************************************************)
(* Model of cfile (src/cfile.h): an owning wrapper for a C FILE*.  A cfile *)
(* is one std::unique_ptr<FILE, deleter>; every member forwards to the C   *)
(* stream API.  The model keeps the pointer of each cfile object, the set  *)
(* of FILE objects that are open streams, and the read side of a stream.   *)
(***************************************************************************)
EXTENDS Integers, Sequences, FiniteSets

NumHandles == 2      \* cfile objects the program has
NumAddr == 2         \* FILE objects the C library can hand out
MaxLen == 2          \* longest file content
MaxPush == 1         \* pushback slots of a stream (one is guaranteed)

NULL == 0
EOF == -1
Handles == 1..NumHandles
Addrs == 1..NumAddr
Ptrs == Addrs \cup {NULL}
Chars == {0, 65, 255}            \* values of unsigned char, all distinct from EOF

RECURSIVE SeqsUpTo(_)
SeqsUpTo(n) ==
    IF n = 0 THEN {<<>>}
    ELSE LET S == SeqsUpTo(n - 1)
         IN  S \cup {Append(s, c) : s \in {t \in S : Len(t) = n - 1}, c \in Chars}

\* what fopen can be asked to open for reading: the bytes of the file
Files == SeqsUpTo(MaxLen)
EmptyFile == <<>>
\* the outcomes of a call whose behaviour is undefined: it returns, or the process dies
UBOutcomes == {"returns", "abort"}

VARIABLES
    f,            \* f[h]: the FILE* the unique_ptr of cfile h stores (NULL: unlinked)
    alive,        \* alive[h]: cfile h is constructed and not yet destroyed
    open,         \* open[p]: the FILE at p is an open stream
    strm,         \* strm[p]: file, unread bytes, pushback and eof flag of the stream at p
    callerOwned,  \* streams the calling code holds as raw FILE* and must close
    dbl,          \* the last operation closed a stream that was not open
    aborted,      \* the process died of undefined behaviour
    last          \* the last operation: operands, values before, result, C calls made

vars == <<f, alive, open, strm, callerOwned, dbl, aborted, last>>

\* a stream: the file it reads, the bytes not yet read, the pushback, the eof flag
NoStream == [file |-> <<>>, data |-> <<>>, pend |-> <<>>, eof |-> FALSE]
NewStream(file) == [file |-> file, data |-> file, pend |-> <<>>, eof |-> FALSE]

Call(name, p) == [call |-> name, p |-> p]

\* the C library's state as one value, with the calls made so far by the operation
Plat == [open |-> open, strm |-> strm, dbl |-> FALSE, aborted |-> FALSE, log |-> <<>>]

\* ---------------------------------------------------------------- C library

\* std::fopen: NULL, or a FILE that is not an open stream
FopenResults(pl) == {NULL} \cup {p \in Addrs : ~pl.open[p]}

Fopen(pl, r, file) ==
    IF r = NULL
    THEN [pl EXCEPT !.log = Append(@, Call("fopen", NULL))]
    ELSE [pl EXCEPT !.open[r] = TRUE, !.strm[r] = NewStream(file),
                    !.log = Append(@, Call("fopen", r))]

\* std::fclose: closes an open stream; on a stream that is not open the behaviour is undefined
Fclose(pl, p, ub) ==
    IF pl.open[p]
    THEN [pl EXCEPT !.open[p] = FALSE, !.strm[p] = NoStream,
                    !.log = Append(@, Call("fclose", p))]
    ELSE [pl EXCEPT !.dbl = TRUE, !.aborted = (ub = "abort"),
                    !.log = Append(@, Call("fclose", p))]

\* std::freopen(name, mode, p): closes the stream, then opens on the same FILE;
\* when the open fails the stream stays closed.  Returns <<result, library state>>.
Freopen(pl, p, ok, file, ub) ==
    IF p = NULL
    THEN <<NULL, [pl EXCEPT !.aborted = (ub = "abort"),
                            !.log = Append(@, Call("freopen", NULL))]>>
    ELSE IF pl.open[p]
    THEN IF ok
         THEN <<p, [pl EXCEPT !.strm[p] = NewStream(file),
                              !.log = Append(@, Call("freopen", p))]>>
         ELSE <<NULL, [pl EXCEPT !.open[p] = FALSE, !.strm[p] = NoStream,
                                 !.log = Append(@, Call("freopen", p))]>>
    ELSE IF ub = "abort"
    THEN <<NULL, [pl EXCEPT !.dbl = TRUE, !.aborted = TRUE,
                            !.log = Append(@, Call("freopen", p))]>>
    ELSE IF ok
    THEN <<p, [pl EXCEPT !.dbl = TRUE, !.open[p] = TRUE, !.strm[p] = NewStream(file),
                         !.log = Append(@, Call("freopen", p))]>>
    ELSE <<NULL, [pl EXCEPT !.dbl = TRUE, !.log = Append(@, Call("freopen", p))]>>

\* the outcomes of fclose(p) and of freopen(.., p) in library state pl: one when
\* the call is defined, each of UBOutcomes when it is not
FcloseOutcomes(pl, p) ==
    IF p # NULL /\ ~pl.open[p] THEN UBOutcomes ELSE {"returns"}
FreopenOutcomes(pl, p) ==
    IF p = NULL \/ ~pl.open[p] THEN UBOutcomes ELSE {"returns"}

\* ---------------------------------------------------------------- unique_ptr

\* cfile::deleter
Deleter(pl, p, ub) == Fclose(pl, p, ub)

\* faulty variant: reset that stores r and forgets the old pointer without deleting it
UniqueResetLeak(fs, pl, h, r, ub) == [f |-> [fs EXCEPT ![h] = r], pl |-> pl]

\* unique_ptr::reset(r): store r, then delete the old pointer if it is not null
UniqueReset(fs, pl, h, r, ub) ==
    LET old == fs[h]
        fs1 == [fs EXCEPT ![h] = r]
    IN  [f |-> fs1, pl |-> IF old # NULL THEN Deleter(pl, old, ub) ELSE pl]

\* faulty variant: release that returns the pointer and keeps it stored
UniqueReleaseKeep(fs, h) == [f |-> fs, ret |-> fs[h]]

\* unique_ptr::release(): store null, return the old pointer
UniqueRelease(fs, h) == [f |-> [fs EXCEPT ![h] = NULL], ret |-> fs[h]]

\* ---------------------------------------------------------------- accessors

Get(h) == f[h]
Linked(h) == Get(h) # NULL
Not(h) == Get(h) = NULL

\* ---------------------------------------------------------------- operations

NoOp == [op |-> "init", h |-> 0, o |-> 0, old |-> NULL, oldo |-> NULL,
         oldOpen |-> FALSE, ret |-> NULL, log |-> <<>>, pre |-> <<>>]

Commit(pl) ==
    /\ open' = pl.open
    /\ strm' = pl.strm
    /\ dbl' = pl.dbl
    /\ aborted' = pl.aborted

\* the process dies inside a C call: no operation completes any more
Abort(pl) ==
    /\ aborted' = TRUE
    /\ dbl' = pl.dbl
    /\ last' = [NoOp EXCEPT !.op = "abort"]
    /\ UNCHANGED <<f, alive, open, strm, callerOwned>>

WasOpen(p) == p # NULL /\ open[p]

Record(name, h, o, ret, pl) ==
    [op |-> name, h |-> h, o |-> o, old |-> f[h], oldo |-> IF o = 0 THEN NULL ELSE f[o],
     oldOpen |-> WasOpen(f[h]), ret |-> ret, log |-> pl.log, pre |-> <<>>]

\* cfile()
DefaultConstruct(h) ==
    /\ ~aborted /\ ~alive[h]
    /\ alive' = [alive EXCEPT ![h] = TRUE]
    /\ f' = [f EXCEPT ![h] = NULL]
    /\ last' = Record("cfile()", h, 0, NULL, Plat)
    /\ dbl' = FALSE
    /\ UNCHANGED <<open, strm, callerOwned, aborted>>

\* explicit cfile(FILE *file): the caller passes null or a stream it owns
ConstructRaw(h, p) ==
    /\ ~aborted /\ ~alive[h]
    /\ p = NULL \/ (p \in callerOwned /\ open[p])
    /\ alive' = [alive EXCEPT ![h] = TRUE]
    /\ f' = [f EXCEPT ![h] = p]
    /\ callerOwned' = callerOwned \ {p}
    /\ last' = Record("cfile(FILE*)", h, 0, p, Plat)
    /\ dbl' = FALSE
    /\ UNCHANGED <<open, strm, aborted>>

\* cfile(filename, mode) : f(std::fopen(filename, mode))
ConstructPath(h, r, file) ==
    LET pl == Fopen(Plat, r, file)
    IN  /\ ~aborted /\ ~alive[h]
        /\ r \in FopenResults(Plat)
        /\ alive' = [alive EXCEPT ![h] = TRUE]
        /\ f' = [f EXCEPT ![h] = r]
        /\ callerOwned' = callerOwned \ {r}
        /\ Commit(pl)
        /\ last' = Record("cfile(path)", h, 0, r, pl)

\* faulty variant: a move constructor that copies the pointer and leaves other linked
MoveConstructCopy(h, o) ==
    /\ ~aborted /\ ~alive[h] /\ alive[o]
    /\ alive' = [alive EXCEPT ![h] = TRUE]
    /\ f' = [f EXCEPT ![h] = f[o]]
    /\ last' = [op |-> "move-construct", h |-> h, o |-> o, old |-> NULL, oldo |-> f[o],
                oldOpen |-> FALSE, ret |-> NULL, log |-> <<>>, pre |-> <<>>]
    /\ dbl' = FALSE
    /\ UNCHANGED <<open, strm, callerOwned, aborted>>

\* cfile(cfile &&other) : f(std::move(other.f))
MoveConstruct(h, o) ==
    LET rel == UniqueRelease(f, o)
    IN  /\ ~aborted /\ ~alive[h] /\ alive[o]
        /\ alive' = [alive EXCEPT ![h] = TRUE]
        /\ f' = [rel.f EXCEPT ![h] = rel.ret]
        /\ last' = [Record("move-construct", h, o, NULL, Plat) EXCEPT !.old = NULL]
        /\ dbl' = FALSE
        /\ UNCHANGED <<open, strm, callerOwned, aborted>>

\* operator=(cfile &&other) { f = std::move(other.f); }: reset(other.f.release())
MoveAssign(h, o, ub) ==
    LET rel == UniqueRelease(f, o)
        res == UniqueReset(rel.f, Plat, h, rel.ret, ub)
    IN  /\ ~aborted /\ alive[h] /\ alive[o]
        /\ ub \in FcloseOutcomes(Plat, rel.f[h])
        /\ IF res.pl.aborted THEN Abort(res.pl)
           ELSE /\ f' = res.f
                /\ Commit(res.pl)
                /\ last' = Record("move-assign", h, o, NULL, res.pl)
                /\ UNCHANGED <<alive, callerOwned>>

\* faulty variant: release that closes the stream before handing its pointer back
ReleaseAndClose(h) ==
    LET p == f[h]
        pl == IF p # NULL /\ open[p]
              THEN [Plat EXCEPT !.open[p] = FALSE, !.strm[p] = NoStream,
                                !.log = <<[call |-> "fclose", p |-> p]>>]
              ELSE Plat
    IN  /\ ~aborted /\ alive[h]
        /\ f' = [f EXCEPT ![h] = NULL]
        /\ callerOwned' = IF p = NULL THEN callerOwned ELSE callerOwned \cup {p}
        /\ open' = pl.open /\ strm' = pl.strm
        /\ last' = [op |-> "release", h |-> h, o |-> 0, old |-> p, oldo |-> NULL,
                    oldOpen |-> (p # NULL /\ open[p]), ret |-> p, log |-> pl.log,
                    pre |-> <<>>]
        /\ dbl' = FALSE
        /\ UNCHANGED <<alive, aborted>>

\* release() { return f.release(); }
Release(h) ==
    LET rel == UniqueRelease(f, h)
    IN  /\ ~aborted /\ alive[h]
        /\ f' = rel.f
        /\ callerOwned' = IF rel.ret = NULL THEN callerOwned ELSE callerOwned \cup {rel.ret}
        /\ last' = Record("release", h, 0, rel.ret, Plat)
        /\ dbl' = FALSE
        /\ UNCHANGED <<alive, open, strm, aborted>>

\* faulty variant: open that keeps the stream it holds when fopen fails
OpenKeepOnFailure(h, r, file, ub) ==
    LET pl1 == Fopen(Plat, r, file)
        res == IF r = NULL THEN [f |-> f, pl |-> pl1] ELSE UniqueReset(f, pl1, h, r, ub)
    IN  /\ ~aborted /\ alive[h]
        /\ r \in FopenResults(Plat)
        /\ f' = res.f
        /\ callerOwned' = callerOwned \ {r}
        /\ Commit(res.pl)
        /\ last' = Record("open", h, 0, r, res.pl)
        /\ UNCHANGED alive

\* open(filename, mode) { f.reset(std::fopen(filename, mode)); }
\* the argument of reset is evaluated before reset runs
Open(h, r, file, ub) ==
    LET pl1 == Fopen(Plat, r, file)
        res == UniqueReset(f, pl1, h, r, ub)
    IN  /\ ~aborted /\ alive[h]
        /\ r \in FopenResults(Plat)
        /\ ub \in FcloseOutcomes(pl1, f[h])
        /\ IF res.pl.aborted THEN Abort(res.pl)
           ELSE /\ f' = res.f
                /\ callerOwned' = callerOwned \ {r}
                /\ Commit(res.pl)
                /\ last' = Record("open", h, 0, r, res.pl)
                /\ UNCHANGED alive

\* reopen(filename, mode) { return std::freopen(filename, mode, get()) != nullptr; }
Reopen(h, ok, file, ub) ==
    LET res == Freopen(Plat, Get(h), ok, file, ub)
    IN  /\ ~aborted /\ alive[h]
        /\ ub \in FreopenOutcomes(Plat, Get(h))
        /\ IF res[2].aborted THEN Abort(res[2])
           ELSE /\ Commit(res[2])
                /\ last' = Record("reopen", h, 0, IF res[1] # NULL THEN 1 ELSE 0, res[2])
                /\ UNCHANGED <<f, alive, callerOwned>>

\* chmode(mode) { return std::freopen(nullptr, mode, get()) != nullptr; }
\* a null filename keeps the file: the stream is opened again on the same file
Chmode(h, ok, ub) ==
    LET p == Get(h)
        file == IF p # NULL THEN strm[p].file ELSE EmptyFile
        res == Freopen(Plat, p, ok, file, ub)
    IN  /\ ~aborted /\ alive[h]
        /\ ub \in FreopenOutcomes(Plat, p)
        /\ IF res[2].aborted THEN Abort(res[2])
           ELSE /\ Commit(res[2])
                /\ last' = Record("chmode", h, 0, IF res[1] # NULL THEN 1 ELSE 0, res[2])
                /\ UNCHANGED <<f, alive, callerOwned>>

\* faulty variant: close that closes the stream and keeps its pointer stored
CloseNoReset(h, ub) ==
    LET pl == IF f[h] # NULL THEN Deleter(Plat, f[h], ub) ELSE Plat
    IN  /\ ~aborted /\ alive[h]
        /\ Commit(pl)
        /\ last' = Record("close", h, 0, NULL, pl)
        /\ UNCHANGED <<f, alive, callerOwned>>

\* close() { f.reset(); }
Close(h, ub) ==
    LET res == UniqueReset(f, Plat, h, NULL, ub)
    IN  /\ ~aborted /\ alive[h]
        /\ ub \in FcloseOutcomes(Plat, f[h])
        /\ IF res.pl.aborted THEN Abort(res.pl)
           ELSE /\ f' = res.f
                /\ Commit(res.pl)
                /\ last' = Record("close", h, 0, NULL, res.pl)
                /\ UNCHANGED <<alive, callerOwned>>

\* ~cfile(): ~unique_ptr deletes the pointer if it is not null
Destroy(h, ub) ==
    LET res == UniqueReset(f, Plat, h, NULL, ub)
    IN  /\ ~aborted /\ alive[h]
        /\ ub \in FcloseOutcomes(Plat, f[h])
        /\ IF res.pl.aborted THEN Abort(res.pl)
           ELSE /\ alive' = [alive EXCEPT ![h] = FALSE]
                /\ f' = res.f
                /\ Commit(res.pl)
                /\ last' = Record("~cfile", h, 0, NULL, res.pl)
                /\ UNCHANGED callerOwned

\* the calling code opens a raw FILE* itself (std::fopen, as the benchmark does)
CallerFopen(r) ==
    LET pl == Fopen(Plat, r, EmptyFile)
    IN  /\ ~aborted
        /\ r \in FopenResults(Plat) \ {NULL}
        /\ callerOwned' = callerOwned \cup {r}
        /\ Commit(pl)
        /\ last' = [NoOp EXCEPT !.op = "fopen", !.ret = r, !.log = pl.log]
        /\ UNCHANGED <<f, alive>>

\* the calling code closes a raw FILE* it owns, once
CallerFclose(p) ==
    LET pl == Fclose(Plat, p, "returns")
    IN  /\ ~aborted
        /\ p \in callerOwned /\ open[p]
        /\ callerOwned' = callerOwned \ {p}
        /\ Commit(pl)
        /\ last' = [NoOp EXCEPT !.op = "fclose", !.old = p, !.oldOpen = TRUE, !.log = pl.log]
        /\ UNCHANGED <<f, alive>>

\* ---------------------------------------------------------------- input

ToUChar(c) == c % 256

Unread(s) == s.pend \o s.data

\* std::fgetc: <<result, stream>>
Fgetc(s) ==
    IF s.pend # <<>> THEN <<Head(s.pend), [s EXCEPT !.pend = Tail(@)]>>
    ELSE IF s.data # <<>> THEN <<Head(s.data), [s EXCEPT !.data = Tail(@)]>>
    ELSE <<EOF, [s EXCEPT !.eof = TRUE]>>

\* faulty variant: ungetc that pushes EOF back as the character it converts to
UngetcNoEofCheck(s, c) ==
    IF Len(s.pend) >= MaxPush THEN <<EOF, s>>
    ELSE <<c, [s EXCEPT !.pend = <<c % 256>> \o @, !.eof = FALSE]>>

\* std::ungetc: fails on EOF and when no pushback slot is left; <<result, stream>>
UngetcC(s, c) ==
    IF c = EOF \/ Len(s.pend) >= MaxPush THEN <<EOF, s>>
    ELSE <<ToUChar(c), [s EXCEPT !.pend = <<ToUChar(c)>> \o @, !.eof = FALSE]>>

IoStep(name, h, res) ==
    /\ ~aborted /\ alive[h] /\ Linked(h) /\ open[Get(h)]
    /\ strm' = [strm EXCEPT ![Get(h)] = res[2]]
    /\ last' = [Record(name, h, 0, res[1], Plat) EXCEPT !.pre = Unread(strm[Get(h)])]
    /\ dbl' = FALSE
    /\ UNCHANGED <<f, alive, open, callerOwned, aborted>>

\* getc() { return std::fgetc(get()); }
Getc(h) == IoStep("getc", h, Fgetc(strm[Get(h)]))

\* ungetc(ch) { return std::ungetc(ch, get()); }
Ungetc(h, c) == IoStep("ungetc", h, UngetcC(strm[Get(h)], c))

\* peek() { return std::ungetc(std::fgetc(get()), get()); }
PeekC(s) == LET g == Fgetc(s) IN UngetcC(g[2], g[1])
Peek(h) == IoStep("peek", h, PeekC(strm[Get(h)]))

\* ---------------------------------------------------------------- specifications

Init ==
    /\ f = [h \in Handles |-> NULL]
    /\ alive = [h \in Handles |-> FALSE]
    /\ open = [p \in Addrs |-> FALSE]
    /\ strm = [p \in Addrs |-> NoStream]
    /\ callerOwned = {}
    /\ dbl = FALSE
    /\ aborted = FALSE
    /\ last = NoOp

\* the ownership operations
NextOwn ==
    \/ \E h \in Handles : DefaultConstruct(h)
    \/ \E h \in Handles, p \in Ptrs : ConstructRaw(h, p)
    \/ \E h \in Handles, r \in Ptrs : ConstructPath(h, r, EmptyFile)
    \/ \E h \in Handles, o \in Handles : MoveConstruct(h, o)
    \/ \E h \in Handles, o \in Handles, ub \in UBOutcomes : MoveAssign(h, o, ub)
    \/ \E h \in Handles : Release(h)
    \/ \E h \in Handles, r \in Ptrs, ub \in UBOutcomes : Open(h, r, EmptyFile, ub)
    \/ \E h \in Handles, ub \in UBOutcomes : Close(h, ub)
    \/ \E h \in Handles, ub \in UBOutcomes : Destroy(h, ub)
    \/ \E r \in Addrs : CallerFopen(r)
    \/ \E p \in Addrs : CallerFclose(p)

\* every operation on the ownership of a stream, reopen and chmode included
Next ==
    \/ NextOwn
    \/ \E h \in Handles, ok \in BOOLEAN, ub \in UBOutcomes : Reopen(h, ok, EmptyFile, ub)
    \/ \E h \in Handles, ok \in BOOLEAN, ub \in UBOutcomes : Chmode(h, ok, ub)

Spec == Init /\ [][Next]_vars
SpecOwn == Init /\ [][NextOwn]_vars

\* cfile f(file, "r") over each file of Files, then the input operations on it
InitIO ==
    /\ \E file \in Files :
        /\ strm = [p \in Addrs |-> IF p = 1 THEN NewStream(file) ELSE NoStream]
    /\ f = [h \in Handles |-> IF h = 1 THEN 1 ELSE NULL]
    /\ alive = [h \in Handles |-> h = 1]
    /\ open = [p \in Addrs |-> p = 1]
    /\ callerOwned = {}
    /\ dbl = FALSE
    /\ aborted = FALSE
    /\ last = [NoOp EXCEPT !.op = "cfile(path)", !.h = 1, !.ret = 1,
                           !.log = <<Call("fopen", 1)>>]

NextIO ==
    \/ \E h \in Handles : Getc(h)
    \/ \E h \in Handles, c \in Chars \cup {EOF} : Ungetc(h, c)
    \/ \E h \in Handles : Peek(h)

SpecIO == InitIO /\ [][NextIO]_vars

\* ---------------------------------------------------------------- properties

Fcloses(log) == {i \in 1..Len(log) : log[i].call = "fclose"}
Fopens(log) == {i \in 1..Len(log) : log[i].call = "fopen"}
\* the platform open of the last operation succeeded
Opened == \E i \in Fopens(last.log) : last.log[i].p # NULL
\* the last operation was an open, reopen or chmode that reported failure
FailedOpen ==
    \/ last.op = "open" /\ ~Opened
    \/ last.op \in {"reopen", "chmode"} /\ last.ret = 0
IsMove == last.op \in {"move-construct", "move-assign"} /\ last.h # last.o
AllDestroyed == \A h \in Handles : ~alive[h]

\* C1: no open stream is held by two different cfile objects at the same time.
C1_ExclusiveOwnership ==
    \A h1 \in Handles, h2 \in Handles :
        (h1 # h2 /\ alive[h1] /\ alive[h2] /\ Linked(h1) /\ open[Get(h1)])
            => Get(h1) # Get(h2)

C1_Witness ==
    /\ last.op = "cfile(FILE*)" /\ last.ret # NULL
    /\ \A h \in Handles : alive[h] /\ Linked(h) /\ open[Get(h)]

\* C2: no operation closes a stream that is already closed, and once every cfile
\* is destroyed no stream the wrapper owns is still open, while the streams handed
\* to the caller by release() were not closed by the wrapper.
C2_CleanupExactlyOnce ==
    /\ ~dbl
    /\ AllDestroyed =>
        /\ \A p \in Addrs : open[p] => p \in callerOwned
        /\ \A p \in callerOwned : open[p]

\* C3 as stated: after a move from a to b, a is unlinked, b holds what a held,
\* and the move has closed nothing.
C3_MoveClosesNothing ==
    IsMove =>
        /\ Not(last.o)
        /\ Get(last.h) = last.oldo
        /\ Fcloses(last.log) = {}

\* C3 amended: after a move from a to b (distinct objects), a is unlinked and b
\* holds what a held; move-construction makes no C call, and move-assignment
\* makes exactly one, the fclose of the stream b held before, when b was linked.
C3_MoveTransfer ==
    IsMove =>
        /\ Not(last.o)
        /\ Get(last.h) = last.oldo
        /\ last.log = IF last.op = "move-assign" /\ last.old # NULL
                      THEN <<Call("fclose", last.old)>> ELSE <<>>

C3_Witness ==
    /\ last.op = "move-assign" /\ last.h # last.o
    /\ last.old # NULL /\ last.oldOpen /\ last.oldo = NULL
    /\ Not(last.h) /\ ~open[last.old]

\* C4: open() on a linked cfile closes the stream it holds before it attempts
\* the platform open of the new file.
C4_CloseThenOpen ==
    (last.op = "open" /\ last.old # NULL) =>
        \A i \in Fcloses(last.log), j \in Fopens(last.log) : i < j

\* C5: after a failed open(), reopen() or chmode() the cfile is unlinked or the
\* stream it points to is open.
C5_NoHalfLinked ==
    FailedOpen => (Not(last.h) \/ open[Get(last.h)])

\* C6: release() returns the pointer held, leaves the cfile unlinked and makes
\* no C call, so a stream that was open stays open for the caller to close; and
\* close() or destruction of an unlinked cfile makes no C call.
C6_ReleaseClosesNothing ==
    /\ last.op = "release" =>
        /\ last.ret = last.old
        /\ Not(last.h)
        /\ last.log = <<>>
        /\ last.oldOpen => open[last.ret]
    /\ (last.op \in {"close", "~cfile"} /\ last.old = NULL) => last.log = <<>>

C6_Witness ==
    /\ last.op = "release" /\ last.ret # NULL /\ open[last.ret]
    /\ last.ret \in callerOwned /\ Not(last.h)

\* C7: after cfile(filename, mode) or open(filename, mode) the cfile is linked
\* (operator bool true, operator! false, get() non-null) exactly when fopen
\* succeeded; after a failed open() the stream held before has been closed.
C7_LinkedIffOpened ==
    last.op \in {"cfile(path)", "open"} =>
        /\ Linked(last.h) <=> Opened
        /\ Not(last.h) <=> ~Opened
        /\ (last.op = "open" /\ ~Opened /\ last.old # NULL) =>
              /\ ~open[last.old]
              /\ \E i \in Fcloses(last.log) : last.log[i].p = last.old

C7_Witness ==
    /\ last.op = "open" /\ ~Opened /\ last.old # NULL /\ last.oldOpen
    /\ Not(last.h) /\ ~open[last.old]

\* C8: b = std::move(a) with b linked to a stream other than a's makes exactly
\* one C call, the fclose of the stream b held; afterwards b holds what a held
\* and a is unlinked.
C8_MoveAssignClosesDest ==
    (last.op = "move-assign" /\ last.h # last.o /\ last.old # NULL /\ last.old # last.oldo) =>
        /\ last.log = <<Call("fclose", last.old)>>
        /\ ~open[last.old]
        /\ Get(last.h) = last.oldo
        /\ Not(last.o)

C8_Witness ==
    /\ last.op = "move-assign" /\ last.h # last.o
    /\ last.old # NULL /\ last.oldOpen /\ last.oldo # NULL /\ last.old # last.oldo
    /\ open[last.oldo] /\ ~open[last.old]

StateOfStreams == <<f, alive, open, strm, callerOwned, aborted>>

\* C9: close() on a linked cfile makes exactly one C call, the fclose of the
\* stream held, and leaves the cfile unlinked; on an unlinked cfile it makes no
\* C call and changes nothing; a second close() right after a close() changes nothing.
C9_CloseIdempotent ==
    [][ /\ last'.op = "close" =>
            /\ Linked(last'.h) =>
                /\ last'.log = <<Call("fclose", Get(last'.h))>>
                /\ f'[last'.h] = NULL
                /\ ~open'[Get(last'.h)]
            /\ Not(last'.h) =>
                /\ last'.log = <<>>
                /\ UNCHANGED StateOfStreams
        /\ (last.op = "close" /\ last'.op = "close" /\ last'.h = last.h) =>
                UNCHANGED StateOfStreams
      ]_vars

C9_Witness ==
    /\ last.op = "close" /\ last.old = NULL /\ last.log = <<>>
    /\ alive[last.h] /\ Not(last.h)

\* C10: peek() returns the next unread character, or EOF when there is none,
\* and leaves the unread input as it was: the getc() that follows returns the
\* value peek() returned.
C10_PeekDoesNotConsume ==
    last.op = "peek" =>
        /\ last.ret = IF last.pre = <<>> THEN EOF ELSE Head(last.pre)
        /\ Fgetc(strm[Get(last.h)])[1] = last.ret
        /\ Unread(strm[Get(last.h)]) = last.pre

C10_Witness ==
    /\ last.op = "peek" /\ last.pre = <<>> /\ last.ret = EOF
    /\ Fgetc(strm[Get(last.h)])[1] = EOF
====
